---- MODULE Spec2Model ----
(***************************************************************************)
(* Backward-pagination backfill of src/src/data_downloader.py:             *)
(*   get_spot_data_bybit_full_period, get_future_data_bybit_full_period    *)
(*   (kline walks over get_spot_prices_bybit / get_future_price_bybit) and *)
(*   get_funding_bybit (funding walk over get_funding_rates, followed by   *)
(*   the hourly grid), and the performance statistics of                   *)
(*   src/src/backtesters.py: CalmarRatio, SortinoRatio and prob_sharpe     *)
(*   (specification StatsSpec).                                            *)
(*                                                                         *)
(* Time is counted in milliseconds since the epoch, as the code does.  The *)
(* process time zone is taken to be UTC, where datetime.timestamp()*1000   *)
(* (lines 151-152, 418-419) and pd.to_datetime(unit='ms') (lines 101, 369) *)
(* agree on millisecond instants; a kline row is its index timestamp (the  *)
(* price columns take no part in the walk or in the merge).                *)
(***************************************************************************)
EXTENDS Integers, Sequences, FiniteSets, TLC

\* ---------------------------------------------------------------- bounds
\* Instants explored: 1..MaxT.
MaxT == 6
\* Largest page the source serves (the code asks for limit=1000 klines,
\* limit=200 funding records; the walk does not depend on the value).
MaxLimit == 2
\* Milliseconds per hour, scaled (freq='H', floor('H'), ceil('H')).
Hour == 2
\* Requests explored per walk against an arbitrary fetcher.
MaxReq == 2
\* Requests explored per funding walk, whose loop has no cap of its own.
MaxFundingReq == 6
\* The iteration cap of lines 193 and 457 (10_000 in the code), scaled so
\* that walks exceeding it are explored.
IterationCap == 3

Times == 1..MaxT
\* Funding rates explored (0 is kept for the grid's filler).
Rates == {1, 2}
\* Lengths of the symbol list explored; several symbols are walked against
\* honest sources of at most one record each.
SymbolCounts == {1, 2}
Kinds == {"spot", "future", "funding"}
\* "any": every reply is arbitrary; "honest": the source holds a fixed set of
\* records and answers with the most recent ones in the requested window;
\* "ignore": the source holds a fixed set and ignores the requested window.
Modes == {"any", "honest", "ignore"}

VARIABLES
    kind,        \* which backfill runs
    mode,        \* behaviour of the remote source
    source,      \* per symbol, the records the source holds (honest, ignore)
    limit,       \* page size the source honours
    symbols,     \* number of symbols asked for (1 for klines)
    start_ms,    \* start_ms / start_time
    end_ms,      \* end_ms / end_time
    pc,          \* "walk", "merge", "build", "grid", "done"
    isym,        \* index of the symbol being walked (for symbol in symbols)
    current_end, \* current_end
    all_dfs,     \* all_dfs: list of retained kline pages
    all_rates,   \* all_rates: list of retained funding records
    results,     \* results: symbol -> frame of funding events
    result,      \* the value returned
    outcome,     \* "none", "empty", "table", "grid", "KeyError"
    nreq,        \* page requests issued by the current walk
    lastEnd,     \* windowEnd of the latest request of the current walk
    lastEarliest,\* earliest timestamp of the latest retained page
    firstResp,   \* kind of the first reply of the current walk
    firstMin,    \* earliest timestamp of the first page of the current walk
    allAbove,    \* every reply of the current walk was a page wholly above start
    errSeen,     \* some request of this backfill failed
    fn,          \* statistic called: "none", "calmar", "sortino", "prob_sharpe"
    spc,         \* "idle", "call", "returned"
    rets,        \* rets: the return series, in units of 1/Unit
    psr,         \* arguments of prob_sharpe and the moments scipy gives it
    out          \* the value the statistic returned

\* The state of a backfill and the state of a statistics call.
bvars == <<kind, mode, source, limit, symbols, start_ms, end_ms, pc, isym,
           current_end, all_dfs, all_rates, results, result, outcome, nreq,
           lastEnd, lastEarliest, firstResp, firstMin, allAbove, errSeen>>
svars == <<fn, spc, rets, psr, out>>
vars == <<bvars, svars>>

\* ------------------------------------------------------------- helpers
MinOf(A) == CHOOSE t \in A : \A u \in A : t <= u
MaxOf(A) == CHOOSE t \in A : \A u \in A : u <= t

RECURSIVE Descending(_)
\* The elements of a finite set of integers, latest first.
Descending(A) ==
    IF A = {} THEN <<>> ELSE <<MaxOf(A)>> \o Descending(A \ {MaxOf(A)})

RECURSIVE LatestN(_, _)
\* The n largest elements of A.
LatestN(A, n) ==
    IF A = {} \/ n = 0 THEN {}
    ELSE {MaxOf(A)} \cup LatestN(A \ {MaxOf(A)}, n - 1)

RangeOf(s) == {s[i] : i \in 1..Len(s)}

RECURSIVE Flatten(_)
\* pd.concat(all_dfs): the pages' rows, in list order.
Flatten(ss) == IF ss = <<>> THEN <<>> ELSE Head(ss) \o Flatten(Tail(ss))

Records == [t : Times, r : Rates]
TimesIn(R) == {x.t : x \in R}
\* Sets of records with at most one record per instant and at most n records.
RecordSets(n) ==
    {R \in SUBSET Records :
        Cardinality(R) <= n /\ \A x, y \in R : x.t = y.t => x = y}

\* ------------------------------------------------- kline page fetcher
RECURSIVE InsertSorted(_, _)
InsertSorted(x, s) ==
    IF s = <<>> THEN <<x>>
    ELSE IF x < Head(s) THEN <<x>> \o s
    ELSE <<Head(s)>> \o InsertSorted(x, Tail(s))

RECURSIVE SortIndex(_)
\* sort_index(): the rows in ascending order of timestamp.
SortIndex(s) ==
    IF s = <<>> THEN <<>> ELSE InsertSorted(Head(s), SortIndex(Tail(s)))

ErrorStatuses == {"http_error", "malformed", "ret_error"}

\* What requests.get can bring back for a kline request of the window
\* [windowStart, windowEnd]: a failure, or retCode 0 with a list of klines,
\* latest first.
KlineReplies(windowStart, windowEnd) ==
    CASE mode = "any" ->
            [status : ErrorStatuses, list : {<<>>}]
            \cup {[status |-> "ok", list |-> Descending(A)] :
                    A \in {B \in SUBSET Times : Cardinality(B) <= MaxLimit}}
      [] mode = "honest" ->
            {[status |-> "ok",
              list |-> Descending(LatestN(
                  {t \in TimesIn(source[isym]) :
                      windowStart <= t /\ t <= windowEnd}, limit))]}
      [] mode = "ignore" ->
            {[status |-> "ok",
              list |-> Descending(LatestN(TimesIn(source[isym]), limit))]}

\* get_spot_prices_bybit / get_future_price_bybit: the frame handed to the
\* walk.  Every failure is caught and becomes the empty frame.
KlineFrame(reply) ==
    IF reply.status = "ok" /\ reply.list # <<>>
    THEN SortIndex(reply.list)
    ELSE <<>>

\* ------------------------------------------------------- kline walk
\* df[df.index >= start_time]
KeepFromStart(df, start) == SelectSeq(df, LAMBDA t : t >= start)

\* A walk that stops only once it has passed start.
ReachedStartStrict(earliest, start) == earliest < start

\* if earliest_timestamp_ms <= start_ms: break
ReachedStart(earliest, start) == earliest <= start

\* A walk that asks again for the row it already has.
SameWindowEnd(earliest) == earliest

\* current_end = earliest_timestamp_ms - 1
NextWindowEnd(earliest) == earliest - 1

\* if len(all_dfs) > 10_000: break
CapExceeded(dfs) == Len(dfs) > IterationCap

\* One pass of the while-loop of a kline backfill.
KlineStep(k) ==
    /\ kind = k
    /\ pc = "walk"
    /\ mode = "any" => nreq < MaxReq
    /\ \E reply \in KlineReplies(start_ms, current_end) :
        LET df0 == KlineFrame(reply)
            df  == KeepFromStart(df0, start_ms)
            earliest == df[1]
            grown == Append(all_dfs, df)
        IN  /\ nreq' = nreq + 1
            /\ lastEnd' = current_end
            /\ errSeen' = (errSeen \/ reply.status \in ErrorStatuses)
            /\ firstResp' =
                 IF nreq > 0 THEN firstResp
                 ELSE IF reply.status \in ErrorStatuses THEN "error"
                 ELSE IF reply.list = <<>> THEN "empty" ELSE "page"
            /\ firstMin' =
                 IF nreq = 0 /\ reply.list # <<>>
                 THEN MinOf(RangeOf(reply.list)) ELSE firstMin
            /\ allAbove' =
                 (allAbove /\ reply.list # <<>>
                  /\ MinOf(RangeOf(reply.list)) > start_ms)
            /\ IF df0 = <<>> \/ df = <<>>
               THEN /\ pc' = "merge"
                    /\ UNCHANGED <<all_dfs, current_end, lastEarliest>>
               ELSE /\ all_dfs' = grown
                    /\ lastEarliest' = earliest
                    /\ IF ReachedStart(earliest, start_ms)
                       THEN /\ pc' = "merge"
                            /\ UNCHANGED current_end
                       ELSE /\ current_end' = NextWindowEnd(earliest)
                            /\ pc' = IF CapExceeded(grown)
                                     THEN "merge" ELSE "walk"
    /\ UNCHANGED svars
    /\ UNCHANGED <<kind, mode, source, limit, symbols, start_ms, end_ms,
                   isym, all_rates, results, result, outcome>>

SpotPage == KlineStep("spot")
FuturePage == KlineStep("future")

\* --------------------------------------------------- merge and dedup
\* A merge that keeps repeated rows.
KeepDuplicated(s) == s

\* full_df[~full_df.index.duplicated(keep='first')]
DropDuplicated(s) ==
    LET keep == {i \in 1..Len(s) : \A j \in 1..(i - 1) : s[j] # s[i]}
        F[i \in 0..Len(s)] ==
            IF i = 0 THEN <<>>
            ELSE IF i \in keep THEN Append(F[i - 1], s[i]) ELSE F[i - 1]
    IN  F[Len(s)]

\* full_df[(full_df.index >= start_time) & (full_df.index <= end_time)]
RangeFilter(s, lo, hi) == SelectSeq(s, LAMBDA t : lo <= t /\ t <= hi)

\* The table a kline backfill returns from the pages it retained.
MergePages(dfs, lo, hi) ==
    RangeFilter(DropDuplicated(SortIndex(Flatten(dfs))), lo, hi)

\* Lines 197-207 and 461-470.
KlineMerge(k) ==
    /\ kind = k
    /\ pc = "merge"
    /\ IF all_dfs # <<>>
       THEN /\ result' = MergePages(all_dfs, start_ms, end_ms)
            /\ outcome' = "table"
       ELSE /\ result' = <<>>
            /\ outcome' = "empty"
    /\ pc' = "done"
    /\ UNCHANGED svars
    /\ UNCHANGED <<kind, mode, source, limit, symbols, start_ms, end_ms,
                   isym, current_end, all_dfs, all_rates, results, nreq,
                   lastEnd, lastEarliest, firstResp, firstMin, allAbove,
                   errSeen>>

SpotMerge == KlineMerge("spot")
FutureMerge == KlineMerge("future")

\* ------------------------------------------------ funding page fetcher
RECURSIVE DescendingRecords(_)
\* The records of R (one per instant), latest first.
DescendingRecords(R) ==
    IF R = {} THEN <<>>
    ELSE LET x == CHOOSE y \in R : y.t = MaxOf(TimesIn(R))
         IN  <<x>> \o DescendingRecords(R \ {x})

\* The records of R at the n latest instants.
LatestRecords(R, n) == {x \in R : x.t \in LatestN(TimesIn(R), n)}

\* What the funding-history request can bring back.  get_funding_rates
\* sends endTime only when end_time is truthy, and never a start.
FundingReplies(windowEnd) ==
    LET inWindow(R) == IF windowEnd # 0
                       THEN {x \in R : x.t <= windowEnd} ELSE R
    IN  CASE mode = "any" ->
                [status : ErrorStatuses, list : {<<>>}]
                \cup {[status |-> "ok", list |-> DescendingRecords(R)] :
                        R \in RecordSets(MaxLimit)}
          [] mode = "honest" ->
                {[status |-> "ok",
                  list |-> DescendingRecords(
                      LatestRecords(inWindow(source[isym]), limit))]}
          [] mode = "ignore" ->
                {[status |-> "ok",
                  list |-> DescendingRecords(
                      LatestRecords(source[isym], limit))]}

\* get_funding_rates: the list of the reply, or None on any failure.
FundingRates(reply) ==
    IF reply.status = "ok"
    THEN [none |-> FALSE, list |-> reply.list]
    ELSE [none |-> TRUE, list |-> <<>>]

\* ------------------------------------------------------ funding walk
\* [r for r in rates if int(r['fundingRateTimestamp']) >= start_time]
FilterFromStart(rates, start) == SelectSeq(rates, LAMBDA x : x.t >= start)

\* min(int(r['fundingRateTimestamp']) for r in rates)
OldestTime(rates) == MinOf({rates[i].t : i \in 1..Len(rates)})

\* One pass of the inner while-loop of get_funding_bybit (lines 252-267).
FundingPage ==
    /\ kind = "funding"
    /\ pc = "walk"
    /\ nreq < (IF mode = "any" THEN MaxReq ELSE MaxFundingReq)
    /\ \E reply \in FundingReplies(current_end) :
        LET rates == FundingRates(reply)
            oldest == OldestTime(rates.list)
        IN  /\ nreq' = nreq + 1
            /\ lastEnd' = current_end
            /\ errSeen' = (errSeen \/ reply.status \in ErrorStatuses)
            /\ firstResp' =
                 IF nreq > 0 THEN firstResp
                 ELSE IF reply.status \in ErrorStatuses THEN "error"
                 ELSE IF reply.list = <<>> THEN "empty" ELSE "page"
            /\ firstMin' =
                 IF nreq = 0 /\ reply.list # <<>>
                 THEN OldestTime(reply.list) ELSE firstMin
            /\ allAbove' =
                 (allAbove /\ reply.list # <<>>
                  /\ OldestTime(reply.list) > start_ms)
            /\ IF rates.none \/ Len(rates.list) = 0
               THEN /\ pc' = "build"
                    /\ UNCHANGED <<all_rates, current_end, lastEarliest>>
               ELSE /\ all_rates' =
                         all_rates \o FilterFromStart(rates.list, start_ms)
                    /\ lastEarliest' = oldest
                    /\ IF ReachedStart(oldest, start_ms)
                       THEN /\ pc' = "build"
                            /\ UNCHANGED current_end
                       ELSE /\ current_end' = NextWindowEnd(oldest)
                            /\ pc' = "walk"
    /\ UNCHANGED svars
    /\ UNCHANGED <<kind, mode, source, limit, symbols, start_ms, end_ms,
                   isym, all_dfs, results, result, outcome>>

\* df.drop_duplicates('fundingTime'): the first record of each instant.
DropDuplicateTimes(s) ==
    LET keep == {i \in 1..Len(s) : \A j \in 1..(i - 1) : s[j].t # s[i].t}
        F[i \in 0..Len(s)] ==
            IF i = 0 THEN <<>>
            ELSE IF i \in keep THEN Append(F[i - 1], s[i]) ELSE F[i - 1]
    IN  F[Len(s)]

RECURSIVE InsertByTime(_, _)
InsertByTime(x, s) ==
    IF s = <<>> THEN <<x>>
    ELSE IF x.t < Head(s).t THEN <<x>> \o s
    ELSE <<Head(s)>> \o InsertByTime(x, Tail(s))

RECURSIVE SortByTime(_)
\* sort_values('fundingTime')
SortByTime(s) ==
    IF s = <<>> THEN <<>> ELSE InsertByTime(Head(s), SortByTime(Tail(s)))

\* The frame of one symbol (lines 274-281).
FundingFrame(rates, lo, hi) ==
    SelectSeq(SortByTime(DropDuplicateTimes(rates)),
              LAMBDA x : lo <= x.t /\ x.t <= hi)

\* The end of one symbol's pass of the for-loop (lines 269-284) and the
\* start of the next one's (lines 247-250).
FundingBuild ==
    /\ kind = "funding"
    /\ pc = "build"
    /\ results' =
         IF all_rates = <<>> THEN results
         ELSE [s \in DOMAIN results \cup {isym} |->
                 IF s = isym THEN FundingFrame(all_rates, start_ms, end_ms)
                 ELSE results[s]]
    /\ IF isym < symbols
       THEN /\ isym' = isym + 1
            /\ pc' = "walk"
            /\ all_rates' = <<>>
            /\ current_end' = end_ms
            /\ nreq' = 0
            /\ lastEnd' = 0
            /\ lastEarliest' = 0
            /\ firstResp' = "none"
            /\ firstMin' = 0
            /\ allAbove' = TRUE
       ELSE /\ pc' = "grid"
            /\ UNCHANGED <<isym, all_rates, current_end, nreq, lastEnd,
                           lastEarliest, firstResp, firstMin, allAbove>>
    /\ UNCHANGED svars
    /\ UNCHANGED <<kind, mode, source, limit, symbols, start_ms, end_ms,
                   all_dfs, result, outcome, errSeen>>

\* ------------------------------------------------------- grid aligner
\* Timestamp.floor('H') and Timestamp.ceil('H')
FloorHour(t) == (t \div Hour) * Hour
CeilHour(t) == ((t + Hour - 1) \div Hour) * Hour

\* A grid of ceil((end - start) / 1 hour) + 1 hours counted from floor(start).
HourlyRangeByLength(lo, hi) ==
    [i \in 1..((hi - lo + Hour - 1) \div Hour + 1) |->
        (lo \div Hour) * Hour + (i - 1) * Hour]

\* pd.date_range(start=start_dt.floor('H'), end=end_dt.ceil('H'), freq='H')
HourlyRange(lo, hi) ==
    [i \in 1..((CeilHour(hi) - FloorHour(lo)) \div Hour + 1) |->
        FloorHour(lo) + (i - 1) * Hour]

\* Series.drop_duplicates(): the first row of each value.
DropDuplicateValues(s) ==
    LET keep == {i \in 1..Len(s) : \A j \in 1..(i - 1) : s[j].r # s[i].r}
        F[i \in 0..Len(s)] ==
            IF i = 0 THEN <<>>
            ELSE IF i \in keep THEN Append(F[i - 1], s[i]) ELSE F[i - 1]
    IN  F[Len(s)]

\* reindex(full_hourly_range).fillna(0.0)
Reindex(series, hours) ==
    [i \in 1..Len(hours) |->
        [t |-> hours[i],
         r |-> IF \E k \in 1..Len(series) : series[k].t = hours[i]
               THEN series[CHOOSE k \in 1..Len(series) :
                               series[k].t = hours[i]].r
               ELSE 0]]

\* The hourly series built from a symbol's frame (lines 292-308).
AlignToGrid(df_fund, lo, hi) ==
    Reindex(DropDuplicateValues(df_fund), HourlyRange(lo, hi))

\* A return that looks up the first symbol without the emptiness test.
FundingGridUnguarded ==
    /\ kind = "funding"
    /\ pc = "grid"
    /\ IF 1 \notin DOMAIN results
       THEN /\ result' = <<>>
            /\ outcome' = "KeyError"
       ELSE /\ result' = AlignToGrid(results[1], start_ms, end_ms)
            /\ outcome' = "grid"
    /\ pc' = "done"
    /\ UNCHANGED svars
    /\ UNCHANGED <<kind, mode, source, limit, symbols, start_ms, end_ms,
                   isym, current_end, all_dfs, all_rates, results, nreq,
                   lastEnd, lastEarliest, firstResp, firstMin, allAbove,
                   errSeen>>

\* Lines 286-315.
FundingGrid ==
    /\ kind = "funding"
    /\ pc = "grid"
    /\ IF DOMAIN results = {}
       THEN /\ result' = <<>>
            /\ outcome' = "empty"
       ELSE IF 1 \notin DOMAIN results
       THEN /\ result' = <<>>
            /\ outcome' = "KeyError"
       ELSE /\ result' = AlignToGrid(results[1], start_ms, end_ms)
            /\ outcome' = "grid"
    /\ pc' = "done"
    /\ UNCHANGED svars
    /\ UNCHANGED <<kind, mode, source, limit, symbols, start_ms, end_ms,
                   isym, current_end, all_dfs, all_rates, results, nreq,
                   lastEnd, lastEarliest, firstResp, firstMin, allAbove,
                   errSeen>>

\* ------------------------------------------------------ specification
KlineSources == {{[t |-> x, r |-> 1] : x \in A} : A \in SUBSET Times}

\* No statistics call is in progress.
NoStatistics ==
    /\ fn = "none"
    /\ spc = "idle"
    /\ rets = <<>>
    /\ psr = <<>>
    /\ out = <<>>

Init ==
    /\ NoStatistics
    /\ kind \in Kinds
    /\ mode \in Modes
    /\ symbols \in (IF kind = "funding" /\ mode = "honest"
                    THEN SymbolCounts ELSE {1})
    /\ start_ms \in Times
    /\ end_ms \in Times
    /\ IF kind = "funding" THEN start_ms <= end_ms ELSE start_ms < end_ms
    /\ limit \in (IF mode = "any" THEN {MaxLimit} ELSE 1..MaxLimit)
    /\ source \in
         (IF mode = "any" THEN {[i \in 1..symbols |-> {}]}
          ELSE IF kind # "funding" THEN [1..symbols -> KlineSources]
          ELSE IF symbols = 1 THEN [1..symbols -> RecordSets(MaxLimit)]
          ELSE [1..symbols -> RecordSets(1)])
    /\ pc = "walk"
    /\ isym = 1
    /\ current_end = end_ms
    /\ all_dfs = <<>>
    /\ all_rates = <<>>
    /\ results = <<>>
    /\ result = <<>>
    /\ outcome = "none"
    /\ nreq = 0
    /\ lastEnd = 0
    /\ lastEarliest = 0
    /\ firstResp = "none"
    /\ firstMin = 0
    /\ allAbove = TRUE
    /\ errSeen = FALSE

Next ==
    \/ SpotPage
    \/ SpotMerge
    \/ FuturePage
    \/ FutureMerge
    \/ FundingPage
    \/ FundingBuild
    \/ FundingGrid

Spec == Init /\ [][Next]_vars

\* ------------------------------------------- performance statistics
\* src/src/backtesters.py.  A return is an integer number of 1/Unit; a
\* quantity is the exact fraction <<numerator, denominator>>, denominator
\* positive; NaN is a value of its own.
\* Returns explored: -MaxRet/Unit .. MaxRet/Unit, series of 1..MaxLen returns.
Unit == 4
MaxRet == 2
MaxLen == 3
\* The near-zero threshold of lines 65 and 86 is 1/NearZeroDen (1e-8 in the
\* code), scaled so that drawdowns on both sides of it and on it are explored.
NearZeroDen == 4
\* days_in_year = 365.25, in quarter days.
DaysInYearTimes4 == 1461

ReturnValues == (0 - MaxRet)..MaxRet
\* What prob_sharpe is called with, and what scipy's skew and kurtosis and
\* len() give for the series.
SharpeValues == (0 - 2)..2
BenchmarkValues == 0..1
SkewValues == (0 - 1)..1
KurtosisValues == (0 - 1)..2
LengthValues == 1..3

RECURSIVE SumSeq(_)
SumSeq(s) == IF s = <<>> THEN 0 ELSE Head(s) + SumSeq(Tail(s))

RECURSIVE Power(_, _)
Power(b, e) == IF e = 0 THEN 1 ELSE b * Power(b, e - 1)

\* Return(rets): np.mean(rets) * days_in_year
Return(r) == <<SumSeq(r) * DaysInYearTimes4, Len(r) * Unit * 4>>

RECURSIVE CumProd(_, _)
CumProd(r, i) == IF i = 0 THEN 1 ELSE (Unit + r[i]) * CumProd(r, i - 1)

\* (1 + rets).cumprod(), every entry in units of Unit^-Len(rets).
WealthIndex(r) ==
    [i \in 1..Len(r) |-> CumProd(r, i) * Power(Unit, Len(r) - i)]

\* wealth_index.cummax()
RollingMax(w) == [i \in 1..Len(w) |-> MaxOf({w[j] : j \in 1..i})]

\* MaxDrawdown(rets): the least of (wealth - rolling_max) / rolling_max.
MaxDrawdown(r) ==
    LET w == WealthIndex(r)
        m == RollingMax(w)
        dd == [i \in 1..Len(r) |-> <<w[i] - m[i], m[i]>>]
        least == CHOOSE i \in 1..Len(r) : \A j \in 1..Len(r) :
                    dd[i][1] * dd[j][2] <= dd[j][1] * dd[i][2]
    IN  dd[least]

\* A guard that lets a denominator equal to the threshold through.
ReachesNearZero(q) == q[1] * NearZeroDen >= q[2]

\* abs(mdd) > 1e-8, for a fraction q >= 0.
ExceedsNearZero(q) == q[1] * NearZeroDen > q[2]

\* downside_vol > 1e-8, for the square q2 of downside_vol.
ExceedsNearZeroSquared(q2) == q2[1] * NearZeroDen * NearZeroDen > q2[2]

NaN == [nan |-> TRUE, ret |-> <<0, 1>>, by |-> <<0, 1>>]

\* The value of CalmarRatio(rets): Return(rets) / abs(mdd), or NaN.
Calmar(r) ==
    LET mdd == MaxDrawdown(r)
        absmdd == <<IF mdd[1] < 0 THEN 0 - mdd[1] ELSE mdd[1], mdd[2]>>
    IN  IF ExceedsNearZero(absmdd)
        THEN [nan |-> FALSE, ret |-> Return(r), by |-> absmdd]
        ELSE NaN

\* rets[rets < target]
Downside(r) == SelectSeq(r, LAMBDA k : k < 0)

\* The square of downside_vol (lines 81-84): 0, or the population variance
\* of the negative returns times days_in_year.
DownsideVolSquared(r) ==
    LET d == Downside(r)
        m == Len(d)
        squares == SumSeq([i \in 1..m |-> d[i] * d[i]])
    IN  IF m = 0 THEN <<0, 1>>
        ELSE <<(m * squares - SumSeq(d) * SumSeq(d)) * DaysInYearTimes4,
               4 * m * m * Unit * Unit>>

\* The value of SortinoRatio(rets): Return(rets) / downside_vol, or NaN;
\* `by` holds the square of downside_vol.
Sortino(r) ==
    LET vol2 == DownsideVolSquared(r)
    IN  IF ExceedsNearZeroSquared(vol2)
        THEN [nan |-> FALSE, ret |-> Return(r), by |-> vol2]
        ELSE NaN

\* Four times the radicand of line 143:
\* 1 - y3 * sr_tested + (y4 - 1) * sr_tested / 4.
Radicand4(y3, y4, sr) == 4 - 4 * y3 * sr + (y4 - 1) * sr

\* The value of prob_sharpe: norm.cdf of
\* num * sqrt(nm1) / sqrt(rad4 / 4), or the exception math.sqrt and the
\* division raise on a radicand that is negative or zero.
ProbSharpe(a) ==
    LET y4 == a.kurt + 3
        rad4 == Radicand4(a.y3, y4, a.sr_tested)
    IN  IF a.nobs - 1 < 0 \/ rad4 <= 0
        THEN [raised |-> TRUE, num |-> 0, nm1 |-> 0, rad4 |-> 0]
        ELSE [raised |-> FALSE, num |-> a.sr_tested - a.sr_etalon,
              nm1 |-> a.nobs - 1, rad4 |-> rad4]

CalmarRatio ==
    /\ fn = "calmar"
    /\ spc = "call"
    /\ out' = Calmar(rets)
    /\ spc' = "returned"
    /\ UNCHANGED <<fn, rets, psr>>
    /\ UNCHANGED bvars

SortinoRatio ==
    /\ fn = "sortino"
    /\ spc = "call"
    /\ out' = Sortino(rets)
    /\ spc' = "returned"
    /\ UNCHANGED <<fn, rets, psr>>
    /\ UNCHANGED bvars

prob_sharpe ==
    /\ fn = "prob_sharpe"
    /\ spc = "call"
    /\ out' = ProbSharpe(psr)
    /\ spc' = "returned"
    /\ UNCHANGED <<fn, rets, psr>>
    /\ UNCHANGED bvars

\* No backfill is in progress.
NoBackfill ==
    /\ kind = "spot"
    /\ mode = "honest"
    /\ symbols = 1
    /\ source = <<{}>>
    /\ limit = 1
    /\ start_ms = 1
    /\ end_ms = 1
    /\ pc = "done"
    /\ isym = 1
    /\ current_end = 1
    /\ all_dfs = <<>>
    /\ all_rates = <<>>
    /\ results = <<>>
    /\ result = <<>>
    /\ outcome = "none"
    /\ nreq = 0
    /\ lastEnd = 0
    /\ lastEarliest = 0
    /\ firstResp = "none"
    /\ firstMin = 0
    /\ allAbove = TRUE
    /\ errSeen = FALSE

StatsInit ==
    /\ NoBackfill
    /\ spc = "call"
    /\ out = <<>>
    /\ fn \in {"calmar", "sortino", "prob_sharpe"}
    /\ IF fn = "prob_sharpe"
       THEN /\ rets = <<>>
            /\ psr \in [sr_tested : SharpeValues, sr_etalon : BenchmarkValues,
                        y3 : SkewValues, kurt : KurtosisValues,
                        nobs : LengthValues]
       ELSE /\ rets \in UNION {[1..n -> ReturnValues] : n \in 1..MaxLen}
            /\ psr = <<>>

StatsNext ==
    \/ CalmarRatio
    \/ SortinoRatio
    \/ prob_sharpe

StatsSpec == StatsInit /\ [][StatsNext]_vars

\* ------------------------------------------------------------- claims
IsKline == kind \in {"spot", "future"}
Returned == outcome \in {"empty", "table", "grid"}

\* C1: the table returned by the spot backfill and by the futures backfill
\* has strictly increasing timestamps (so none occurs twice), and every
\* timestamp t satisfies start <= t <= end, whatever pages were fetched.
C1_TableIncreasingInRange ==
    (IsKline /\ pc = "done") =>
        /\ \A i \in 1..Len(result) :
              start_ms <= result[i] /\ result[i] <= end_ms
        /\ \A i \in 1..(Len(result) - 1) : result[i] < result[i + 1]

\* C1's case: an arbitrary fetcher gave pages from which rows had to be
\* removed (a repeated or out-of-range timestamp), and a table of at least
\* two rows came back.
C1_Witness ==
    /\ IsKline /\ mode = "any" /\ pc = "done" /\ outcome = "table"
    /\ Len(result) >= 2
    /\ Len(Flatten(all_dfs)) > Len(result)
    /\ \E i, j \in 1..Len(Flatten(all_dfs)) :
          i # j /\ Flatten(all_dfs)[i] = Flatten(all_dfs)[j]

\* C2: when some page request of a backfill failed (HTTP failure, malformed
\* payload, non-zero return code), the backfill ends in an error and never
\* returns a table.
C2_FetchErrorPropagates ==
    (errSeen /\ pc = "done") => ~Returned

\* C3: when every page is non-empty with its earliest timestamp strictly
\* above start, a kline backfill issues no more page requests than the cap,
\* stops after exactly that many, and ends by raising NonConvergenceError
\* instead of returning a table.
C3_CapRaisesNonConvergence ==
    (IsKline /\ allAbove /\ nreq > 0) =>
        /\ nreq <= IterationCap
        /\ pc # "walk" => nreq = IterationCap
        /\ pc = "done" => outcome = "NonConvergenceError"

\* C4: each of the three walks (spot, futures, funding) stops after a number
\* of page requests bounded by the iteration cap, whatever the fetcher does.
C4_RequestsBoundedByCap ==
    nreq <= IterationCap + 1

\* C5: the hourly grid returned by the funding backfill has exactly
\* ceil((end - start) / 1 hour) + 1 rows.
C5_RowsByRangeLength ==
    (kind = "funding" /\ pc = "done" /\ outcome = "grid") =>
        Len(result) = (end_ms - start_ms + Hour - 1) \div Hour + 1

\* C5, amended: the hourly grid has one row per hour boundary from
\* floor(start, hour) to ceil(end, hour) inclusive, that is
\* ceil(end / 1 hour) - floor(start / 1 hour) + 1 rows.
C5_RowsFloorToCeil ==
    (kind = "funding" /\ pc = "done" /\ outcome = "grid") =>
        /\ Len(result) =
              (end_ms + Hour - 1) \div Hour - start_ms \div Hour + 1
        /\ \A i \in 1..Len(result) :
              /\ result[i].t % Hour = 0
              /\ result[i].t > start_ms - Hour
              /\ result[i].t < end_ms + Hour
        /\ \A i \in 1..(Len(result) - 1) : result[i + 1].t = result[i].t + Hour

\* C5's case: a grid came back for a range that is not aligned on hours and
\* has more rows than ceil((end - start) / 1 hour) + 1.
C5_Witness ==
    /\ kind = "funding" /\ pc = "done" /\ outcome = "grid"
    /\ start_ms % Hour # 0
    /\ Len(result) > (end_ms - start_ms + Hour - 1) \div Hour + 1

\* C6: at every hour h of the grid the value is the rate of the retained
\* funding event whose timestamp is h (the first-seen one), and 0.0 when no
\* retained event has timestamp h; also when two events at different hours
\* carry the same rate.
C6_GridCarriesEveryEvent ==
    (kind = "funding" /\ pc = "done" /\ outcome = "grid") =>
        \A i \in 1..Len(result) :
            LET at == {k \in 1..Len(results[1]) :
                          results[1][k].t = result[i].t}
            IN  IF at = {} THEN result[i].r = 0
                ELSE \A k \in at : result[i].r = results[1][k].r

\* C7: against an honest source holding the set S, the table a kline
\* backfill returns holds exactly the records of S with
\* start <= timestamp <= end, whatever the number of pages needed.
C7_HonestWalkComplete ==
    (IsKline /\ mode = "honest" /\ pc = "done") =>
        RangeOf(result) =
            {t \in TimesIn(source[1]) : start_ms <= t /\ t <= end_ms}

\* C8: the windowEnd of every request after the first is the earliest
\* timestamp of the previously retained page minus one tick, and is strictly
\* smaller than the windowEnd of the request before it.
C8_WindowEndStrictlyBackward ==
    (pc = "walk" /\ nreq > 0) =>
        /\ current_end = lastEarliest - 1
        /\ current_end < lastEnd

\* C8, amended: the windowEnd of every request after the first is the
\* earliest timestamp of the previously retained page minus one tick; it is
\* strictly smaller than the previous windowEnd whenever that page did not
\* start after the windowEnd it was requested with.
C8_WindowEndFollowsEarliest ==
    (pc = "walk" /\ nreq > 0) =>
        /\ current_end = lastEarliest - 1
        /\ lastEarliest <= lastEnd => current_end < lastEnd

\* C8's case: a walk is about to issue its third request, each page so far
\* lying inside the window it was requested with.
C8_Witness ==
    /\ pc = "walk" /\ nreq = 2
    /\ lastEarliest <= lastEnd
    /\ current_end < lastEnd

C10_EmptyFirstPageEmptyTable ==
    (firstResp = "empty" /\ symbols = 1) =>
        /\ nreq = 1
        /\ pc # "walk"
        /\ pc = "done" => (outcome = "empty" /\ result = <<>>)

\* C10's case: a funding backfill of one symbol whose first page was empty
\* has returned.
C10_Witness ==
    /\ kind = "funding" /\ symbols = 1
    /\ firstResp = "empty" /\ ~errSeen /\ pc = "done"

StatReturned(f) == fn = f /\ spc = "returned"

FracEq(a, b) == a[1] * b[2] = b[1] * a[2]

\* The largest relative decline of the wealth index from an entry to a
\* later one, as a fraction.
PeakToTrough(r) ==
    LET w == WealthIndex(r)
        pairs == {p \in (1..Len(r)) \X (1..Len(r)) : p[1] <= p[2]}
        decline(p) == <<w[p[1]] - w[p[2]], w[p[1]]>>
        worst == CHOOSE p \in pairs : \A q \in pairs :
                    decline(q)[1] * decline(p)[2] <= decline(p)[1] * decline(q)[2]
    IN  decline(worst)

\* The sum of the squared differences of every two negative returns: the
\* population variance of the m negative returns is this over m * m * Unit^2.
PairwiseSpread(r) ==
    LET d == Downside(r)
        pairs == {p \in (1..Len(d)) \X (1..Len(d)) : p[1] < p[2]}
        sq(p) == (d[p[1]] - d[p[2]]) * (d[p[1]] - d[p[2]])
        RECURSIVE Total(_)
        Total(S) == IF S = {} THEN 0
                    ELSE LET p == CHOOSE p \in S : TRUE
                         IN  sq(p) + Total(S \ {p})
    IN  Total(pairs)

\* The annualized mean return, as a fraction.
AnnualMean(r) == <<SumSeq(r) * DaysInYearTimes4, 4 * Unit * Len(r)>>

\* C11: CalmarRatio returns NaN exactly when the magnitude of the maximum
\* drawdown does not exceed the near-zero threshold (below it or equal to it),
\* SortinoRatio exactly when the annualized deviation of the negative returns
\* does not exceed it (no negative return, a single one, equal ones);
\* otherwise each returns Return(r) over that denominator; neither raises.
C11_NaNUnlessAboveThreshold ==
    /\ StatReturned("calmar") =>
         /\ out.nan <=> PeakToTrough(rets)[1] * NearZeroDen <= PeakToTrough(rets)[2]
         /\ ~out.nan => /\ FracEq(out.ret, AnnualMean(rets))
                        /\ FracEq(out.by, PeakToTrough(rets))
    /\ StatReturned("sortino") =>
         LET m == Len(Downside(rets))
         IN  /\ out.nan <=>
                  PairwiseSpread(rets) * DaysInYearTimes4 * NearZeroDen * NearZeroDen
                     <= 4 * m * m * Unit * Unit
             /\ ~out.nan =>
                  /\ FracEq(out.ret, AnnualMean(rets))
                  /\ FracEq(out.by, <<PairwiseSpread(rets) * DaysInYearTimes4,
                                     4 * m * m * Unit * Unit>>)

\* CalmarRatio has returned NaN on a series whose maximum drawdown is exactly
\* the threshold in magnitude.
C11_Witness ==
    /\ StatReturned("calmar")
    /\ out.nan
    /\ PeakToTrough(rets)[1] * NearZeroDen = PeakToTrough(rets)[2]

\* C11 as stated: NaN exactly when the denominator is strictly below the
\* threshold.
C11_NaNExactlyBelowThreshold ==
    /\ StatReturned("calmar") =>
         (out.nan <=> PeakToTrough(rets)[1] * NearZeroDen < PeakToTrough(rets)[2])
    /\ StatReturned("sortino") =>
         (out.nan <=>
            PairwiseSpread(rets) * DaysInYearTimes4 * NearZeroDen * NearZeroDen
               < 4 * Len(Downside(rets)) * Len(Downside(rets)) * Unit * Unit)

\* C12: prob_sharpe returns the normal CDF of
\* (srTested - srBenchmark) * sqrt(n - 1) / sqrt(D) with
\* D = 1 - skew * srTested + ((excess kurtosis + 3 - 1) / 4) * srTested^2;
\* stated on 4 * D.
C12_RadicandUsesSquaredSharpe ==
    (StatReturned("prob_sharpe") /\ ~out.raised) =>
        /\ out.num = psr.sr_tested - psr.sr_etalon
        /\ out.nm1 = psr.nobs - 1
        /\ out.rad4 = 4 - 4 * psr.y3 * psr.sr_tested
                        + (psr.kurt + 3 - 1) * psr.sr_tested * psr.sr_tested

\* C13: a funding backfill over several symbols returns an empty table or an
\* hourly grid and raises no lookup error, whatever each symbol's walk
\* yielded; in particular when the first symbol yields no record and a later
\* one yields some.
C13_NoLookupError ==
    (kind = "funding" /\ pc = "done") => outcome \in {"empty", "grid"}

====
